---- MODULE Spec2Model ----
(***************************************************************************)
(* Model of runner/ssh/runner.go: the remote session lifecycle manager.    *)
(* A Runner is built by New (script check, rendering, descriptor           *)
(* normalisation, host verification policy, dial, channel open) and then   *)
(* driven by Run, Start, Wait, Close and the stream attachment methods.    *)
(* The ssh, terminal, homedir and knownhosts packages and the script       *)
(* package are the environment: every call into them is logged in `calls`  *)
(* together with the result the environment gave.                          *)
(* Strings are sequences of one-character strings.                         *)
(***************************************************************************)
EXTENDS Integers, Sequences, FiniteSets, TLC

\* ---------------------------------------------------------------- bounds
\* largest remote exit status the environment reports in an *ssh.ExitError
MaxStatus == 2

\* ------------------------------------------------------------- constants
\* bit width of Connection.Port (uint16) and of strconv.ParseUint(.., 10, 16)
PortBits == 16

Pow2(n) == 2 ^ n

\* ExitStatus() values of an *ssh.ExitError: the ssh package returns nil, not
\* an ExitError, for status 0
ExitStatuses == 1 .. MaxStatus

\* ------------------------------------------------------------- strings
Digits == <<"0", "1", "2", "3", "4", "5", "6", "7", "8", "9">>

UpperChars == <<"A", "B", "C", "D", "E", "F", "G", "H", "I", "J", "K", "L", "M",
                "N", "O", "P", "Q", "R", "S", "T", "U", "V", "W", "X", "Y", "Z">>

LowerChars == <<"a", "b", "c", "d", "e", "f", "g", "h", "i", "j", "k", "l", "m",
                "n", "o", "p", "q", "r", "s", "t", "u", "v", "w", "x", "y", "z">>

IndexIn(seq, c) == CHOOSE i \in DOMAIN seq : seq[i] = c

IsIn(seq, c) == \E i \in DOMAIN seq : seq[i] = c

\* strings.ToLower on one character
LowerChar(c) == IF IsIn(UpperChars, c) THEN LowerChars[IndexIn(UpperChars, c)] ELSE c

\* strings.ToLower
ToLower(s) == [i \in DOMAIN s |-> LowerChar(s[i])]

\* strconv.ParseBool: the accepted literals, anything else is an error
ParseBool(s) ==
    IF s \in {<<"1">>, <<"t">>, <<"T">>, <<"T", "R", "U", "E">>,
              <<"t", "r", "u", "e">>, <<"T", "r", "u", "e">>}
    THEN [ok |-> TRUE, val |-> TRUE]
    ELSE IF s \in {<<"0">>, <<"f">>, <<"F">>, <<"F", "A", "L", "S", "E">>,
                   <<"f", "a", "l", "s", "e">>, <<"F", "a", "l", "s", "e">>}
    THEN [ok |-> TRUE, val |-> FALSE]
    ELSE [ok |-> FALSE, val |-> FALSE]

RECURSIVE DigitsValue(_)
DigitsValue(s) ==
    IF Len(s) = 0 THEN 0
    ELSE 10 * DigitsValue(SubSeq(s, 1, Len(s) - 1)) + (IndexIn(Digits, s[Len(s)]) - 1)

\* strconv.ParseUint(s, 10, 16): syntax error on the empty string or a
\* non-digit, range error above 2^16 - 1
ParseUint(s) ==
    IF Len(s) = 0 \/ \E i \in DOMAIN s : ~IsIn(Digits, s[i])
    THEN [ok |-> FALSE, val |-> 0]
    ELSE IF DigitsValue(s) > Pow2(PortBits) - 1
    THEN [ok |-> FALSE, val |-> Pow2(PortBits) - 1]
    ELSE [ok |-> TRUE, val |-> DigitsValue(s)]

\* the uint16(..) conversion
Uint16(n) == n % Pow2(PortBits)

\* -------------------------------------------- connection descriptors
\* new(Connection): the zero value
ZeroConnection ==
    [Type |-> <<>>, Host |-> <<>>, Port |-> 0, User |-> <<>>,
     Password |-> <<>>, Insecure |-> FALSE]

MapStr(m, k) == IF k \in DOMAIN m THEN m[k] ELSE <<>>

\* mutant of MapPort: the port is parsed with bit size 8
MapPortEightBits(m) ==
    IF "Port" \in DOMAIN m
    THEN LET p == ParseUint(m["Port"])
         IN Uint16(IF p.ok /\ p.val < 256 THEN p.val ELSE 0)
    ELSE 0

\* mutant of MapPort: the value ParseUint returns is kept when it reports an
\* error
MapPortKeepsValue(m) ==
    IF "Port" \in DOMAIN m THEN Uint16(ParseUint(m["Port"]).val) ELSE 0

MapPort(m) ==
    IF "Port" \in DOMAIN m
    THEN LET p == ParseUint(m["Port"])
         IN Uint16(IF p.ok THEN p.val ELSE 0)
    ELSE 0

MapInsecure(m) ==
    IF "Insecure" \in DOMAIN m
    THEN LET b == ParseBool(ToLower(m["Insecure"]))
         IN IF b.ok THEN b.val ELSE FALSE
    ELSE FALSE

\* toConnection: a struct is copied field by field, a map is read key by
\* key (each known key once, whatever the iteration order), any other kind
\* gives the zero Connection
toConnection(connection) ==
    IF connection.kind = "struct"
    THEN [Type |-> connection.v.Type, Host |-> connection.v.Host,
          Port |-> Uint16(connection.v.Port), User |-> connection.v.User,
          Password |-> connection.v.Password, Insecure |-> connection.v.Insecure]
    ELSE IF connection.kind = "map"
    THEN [Type |-> MapStr(connection.v, "Type"), Host |-> MapStr(connection.v, "Host"),
          Port |-> MapPort(connection.v), User |-> MapStr(connection.v, "User"),
          Password |-> MapStr(connection.v, "Password"),
          Insecure |-> MapInsecure(connection.v)]
    ELSE ZeroConnection

\* the descriptors a caller passes to New: the typed record, the string map
\* (with parsable and unparsable Port and Insecure values, a missing key and
\* an unknown key) and a value that is neither
StructInputs ==
    {[kind |-> "struct",
      v |-> [Type |-> <<"s", "s", "h">>, Host |-> <<"h">>, Port |-> p,
             User |-> <<"u">>, Password |-> <<"p">>, Insecure |-> b]] :
        p \in {0, 22, 65535}, b \in BOOLEAN}

MapBase ==
    [k \in {"Type", "Host", "User", "Password"} |->
        CASE k = "Type" -> <<"s", "s", "h">>
          [] k = "Host" -> <<"h">>
          [] k = "User" -> <<"u">>
          [] k = "Password" -> <<"p">>]

MapInputs ==
    {[kind |-> "map", v |-> MapBase @@ ("Port" :> <<"2", "2">>) @@ ("Insecure" :> i)] :
        i \in {<<"T", "R", "U", "E">>, <<"f", "a", "l", "s", "e">>, <<"y", "e", "s">>}}
    \cup {[kind |-> "map", v |-> MapBase @@ ("Port" :> <<"6", "5", "5", "3", "6">>)
                                 @@ ("Extra" :> <<"x">>)],
          [kind |-> "map", v |-> MapBase @@ ("Port" :> <<"2", "x">>)
                                 @@ ("Insecure" :> <<"t", "R", "u", "E">>)],
          [kind |-> "map", v |-> MapBase @@ ("Port" :> <<"-", "1">>)
                                 @@ ("Insecure" :> <<>>)],
          [kind |-> "map", v |-> MapBase @@ ("Port" :> <<>>)
                                 @@ ("Insecure" :> <<"0">>)]}

ConnectionInputs == StructInputs \cup MapInputs \cup {[kind |-> "other", v |-> <<>>]}

\* ------------------------------------------------------------ the state
VARIABLES
    r,        \* the *Runner the caller holds: Nil or the Runner's fields
    sess,     \* the ssh.Session behind r.session (environment)
    conn,     \* the ssh.Client dialed by the last New: "none", "open", "closed"
    term,     \* mode of the local terminal: "cooked" or "raw"
    lastOp,   \* the operation that returned last
    ret,      \* what it returned
    calls,    \* the calls it made into the environment, in order, with results
    fault,    \* the program has panicked
    runHist,  \* the last outcome session.Run gave to Run, and what Run made of it
    spent,    \* Run, Start or Wait has returned an error on r, or Close was called
    pending   \* the operation blocked inside the channel: "none", "Run" or "Wait"

vars == <<r, sess, conn, term, lastOp, ret, calls, fault, runHist, spent, pending>>

Nil == [ptr |-> "nil"]

\* the script handed to New, used only as a reference
TheScript == "script"

\* script.Command(): the script's own command line
ScriptCommand == <<"c">>

\* the rendered script body the reader delivers
ScriptBody == <<"b">>

NoError == [kind |-> "nil"]

\* &Error{script: .., command: .., exitCode: .., err: ..}
Envelope(script, command, exitCode) ==
    [kind |-> "Error", script |-> script, command |-> command, exitCode |-> exitCode]

\* an error value of the environment returned as it is
BareError == [kind |-> "bare"]

Ev(fn, err) == [fn |-> fn, err |-> err]

\* state: "none", "open" or "closed"; started, waited: Start and Wait have
\* been through; stdin, stdout, stderr: the Stdin, Stdout, Stderr fields are set
NoSession == [state |-> "none", started |-> FALSE, waited |-> FALSE,
              stdin |-> FALSE, stdout |-> FALSE, stderr |-> FALSE]

FreshSession == [NoSession EXCEPT !.state = "open"]

NoHist == [err |-> "none", status |-> 0, exitCode |-> 0, ret |-> NoError]

Called(fn) == \E i \in DOMAIN calls : calls[i].fn = fn

Failed(fn) == \E i \in DOMAIN calls : calls[i].fn = fn /\ calls[i].err

Init ==
    /\ r = Nil
    /\ sess = NoSession
    /\ conn = "none"
    /\ term = "cooked"
    /\ lastOp = "none"
    /\ ret = NoError
    /\ calls = <<>>
    /\ fault = FALSE
    /\ runHist = NoHist
    /\ spent = FALSE
    /\ pending = "none"

\* ------------------------------------------------------------------ New
RECURSIVE FormatDec(_)
\* the %d verb
FormatDec(n) == IF n < 10 THEN <<Digits[n + 1]>> ELSE FormatDec(n \div 10) \o <<Digits[(n % 10) + 1]>>

\* fmt.Sprintf("%s:%d", c.Host, c.Port)
Address(c) == c.Host \o <<":">> \o FormatDec(c.Port)

\* every failing return of New: no Runner, an Error without command text
NewFail(log, client) ==
    [r |-> Nil, ret |-> Envelope(TheScript, <<>>, -1), calls |-> log, conn |-> client]

\* ssh.Dial and client.NewSession
NewDial(in, command, c, policy, log) ==
    LET d == log \o <<[fn |-> "ssh.Dial", err |-> in.dialErr, policy |-> policy,
                       address |-> Address(c), user |-> c.User]>>
        e == d \o <<Ev("client.NewSession", in.sessErr)>>
    IN  IF in.dialErr THEN NewFail(d, "none")
        ELSE IF in.sessErr THEN NewFail(e, "open")
        ELSE [r |-> [ptr |-> "r", script |-> TheScript, command |-> command,
                     client |-> "client", session |-> "session",
                     running |-> FALSE, exitCode |-> 0],
              ret |-> NoError, calls |-> e, conn |-> "open"]

\* mutant of NewHostKey: an unavailable known_hosts file falls back to
\* accepting any host key
NewHostKeyFailOpen(in, command, c, log) ==
    IF c.Insecure THEN NewDial(in, command, c, "InsecureIgnoreHostKey", log)
    ELSE LET x == log \o <<Ev("homedir.Expand", in.expandErr)>>
             k == x \o <<Ev("knownhosts.New", in.khErr)>>
         IN  IF in.expandErr THEN NewDial(in, command, c, "InsecureIgnoreHostKey", x)
             ELSE IF in.khErr THEN NewDial(in, command, c, "InsecureIgnoreHostKey", k)
             ELSE NewDial(in, command, c, "knownhosts", k)

\* the host key callback: accept any key, or the known_hosts file
NewHostKey(in, command, c, log) ==
    IF c.Insecure THEN NewDial(in, command, c, "InsecureIgnoreHostKey", log)
    ELSE LET x == log \o <<Ev("homedir.Expand", in.expandErr)>>
             k == x \o <<Ev("knownhosts.New", in.khErr)>>
         IN  IF in.expandErr THEN NewFail(x, "none")
             ELSE IF in.khErr THEN NewFail(k, "none")
             ELSE NewDial(in, command, c, "knownhosts", k)

\* ioutil.ReadAll: the body is kept only when the read gave no error
NewCompose(in, log) ==
    LET script == IF ~in.readErr THEN ScriptBody ELSE <<>>
        c == toConnection(in.connection)
    IN  NewHostKey(in, ScriptCommand \o script, c,
                   log \o <<Ev("ioutil.ReadAll", in.readErr),
                            [fn |-> "toConnection", err |-> FALSE,
                             connection |-> in.connection, c |-> c]>>)

\* mutant of NewOutcome: the error of s.NewReader is not returned
NewOutcomeRenderIgnored(in) ==
    IF in.scriptErr THEN NewFail(<<Ev("s.Error", TRUE)>>, "none")
    ELSE NewCompose(in, <<Ev("s.Error", FALSE), Ev("s.NewReader", in.renderErr)>>)

NewOutcome(in) ==
    IF in.scriptErr THEN NewFail(<<Ev("s.Error", TRUE)>>, "none")
    ELSE IF in.renderErr
    THEN NewFail(<<Ev("s.Error", FALSE), Ev("s.NewReader", TRUE)>>, "none")
    ELSE NewCompose(in, <<Ev("s.Error", FALSE), Ev("s.NewReader", FALSE)>>)

\* the environment's answers to one New; answers are drawn only for the
\* steps New gets to (the others are left FALSE)
NewAnswers ==
    {in \in [scriptErr : BOOLEAN, renderErr : BOOLEAN, readErr : BOOLEAN,
             expandErr : BOOLEAN, khErr : BOOLEAN, dialErr : BOOLEAN, sessErr : BOOLEAN] :
        /\ in.scriptErr => ~in.renderErr
        /\ (in.scriptErr \/ in.renderErr) => (~in.readErr /\ ~in.expandErr)
        /\ in.expandErr => ~in.khErr
        /\ (in.scriptErr \/ in.renderErr \/ in.expandErr \/ in.khErr) => ~in.dialErr
        /\ (in.scriptErr \/ in.renderErr \/ in.expandErr \/ in.khErr \/ in.dialErr)
              => ~in.sessErr}

NewInputs ==
    {[scriptErr |-> a.scriptErr, renderErr |-> a.renderErr, readErr |-> a.readErr,
      connection |-> c, expandErr |-> a.expandErr, khErr |-> a.khErr,
      dialErr |-> a.dialErr, sessErr |-> a.sessErr] :
        a \in NewAnswers, c \in ConnectionInputs}

\* everything New can return and leave behind
NewOutcomes == {NewOutcome(in) : in \in NewInputs}

New ==
    /\ ~fault
    /\ \E o \in NewOutcomes :
        /\ r' = o.r
        /\ ret' = o.ret
        /\ calls' = o.calls
        /\ conn' = o.conn
        /\ sess' = IF o.r = Nil THEN NoSession ELSE FreshSession
    /\ lastOp' = "New"
    /\ spent' = FALSE
    /\ UNCHANGED <<term, fault, runHist, pending>>

\* ------------------------------------------- stream attachment methods
\* these and Run, Start, Wait are invoked on a Runner that New returned

SetStdoutWriter ==
    /\ ~fault /\ r # Nil
    /\ sess' = [sess EXCEPT !.stdout = TRUE]
    /\ lastOp' = "SetStdoutWriter"
    /\ ret' = NoError
    /\ calls' = <<>>
    /\ UNCHANGED <<r, conn, term, fault, runHist, spent, pending>>

SetStderrWriter ==
    /\ ~fault /\ r # Nil
    /\ sess' = [sess EXCEPT !.stderr = TRUE]
    /\ lastOp' = "SetStderrWriter"
    /\ ret' = NoError
    /\ calls' = <<>>
    /\ UNCHANGED <<r, conn, term, fault, runHist, spent, pending>>

\* session.StdoutPipe / session.StderrPipe refuse when the writer is already
\* set or the command has been started
PipeErr(writerSet, ss) == writerSet \/ ss.started

\* the common body of StdoutPipe and StderrPipe
PipeOutcome(rr, err) ==
    IF err
    THEN [r |-> [rr EXCEPT !.exitCode = -1], ret |-> Envelope(rr.script, <<>>, -1)]
    ELSE [r |-> rr, ret |-> NoError]

StdoutPipe ==
    /\ ~fault /\ r # Nil
    /\ LET e == PipeErr(sess.stdout, sess)
           o == PipeOutcome(r, e)
       IN  /\ r' = o.r
           /\ ret' = o.ret
           /\ calls' = <<Ev("session.StdoutPipe", e)>>
    /\ lastOp' = "StdoutPipe"
    /\ UNCHANGED <<sess, conn, term, fault, runHist, spent, pending>>

StderrPipe ==
    /\ ~fault /\ r # Nil
    /\ LET e == PipeErr(sess.stderr, sess)
           o == PipeOutcome(r, e)
       IN  /\ r' = o.r
           /\ ret' = o.ret
           /\ calls' = <<Ev("session.StderrPipe", e)>>
    /\ lastOp' = "StderrPipe"
    /\ UNCHANGED <<sess, conn, term, fault, runHist, spent, pending>>

\* ------------------------------------------- outcomes of the channel
\* what session.Run, session.Start and session.Wait hand back: err is "nil",
\* "exit" (an *ssh.ExitError carrying status) or "other"; launched tells
\* whether the command was started on the channel by this call
Outcome(err, status, launched) == [err |-> err, status |-> status, launched |-> launched]

\* a session that is closed or already started refuses to start a command
CanStart(ss) == ss.state = "open" /\ ~ss.started

SessionRunOutcomes(ss) ==
    IF CanStart(ss)
    THEN {Outcome("nil", 0, TRUE)} \cup {Outcome("exit", n, TRUE) : n \in ExitStatuses}
         \cup {Outcome("other", 0, l) : l \in BOOLEAN}
    ELSE {Outcome("other", 0, FALSE)}

SessionStartOutcomes(ss) ==
    IF CanStart(ss)
    THEN {Outcome("nil", 0, TRUE), Outcome("other", 0, FALSE)}
    ELSE {Outcome("other", 0, FALSE)}

\* session.Wait answers "not started" at once on a session that was never
\* started
SessionWaitOutcomes(ss) ==
    IF ss.started
    THEN {Outcome("nil", 0, FALSE)} \cup {Outcome("exit", n, FALSE) : n \in ExitStatuses}
         \cup {Outcome("other", 0, FALSE)}
    ELSE {Outcome("other", 0, FALSE)}

\* ---------------------------------------------------------------- Start
StartOutcome(rr, o) ==
    IF o.err # "nil"
    THEN [r |-> [rr EXCEPT !.exitCode = -1], ret |-> Envelope(rr.script, rr.command, -1)]
    ELSE [r |-> [rr EXCEPT !.running = TRUE], ret |-> NoError]

Start ==
    /\ ~fault /\ r # Nil
    /\ \E o \in SessionStartOutcomes(sess) :
        /\ r' = StartOutcome(r, o).r
        /\ ret' = StartOutcome(r, o).ret
        /\ calls' = <<[fn |-> "session.Start", err |-> o.err # "nil", command |-> r.command,
                       launched |-> o.launched]>>
        /\ sess' = [sess EXCEPT !.started = @ \/ o.launched]
        /\ spent' = (spent \/ StartOutcome(r, o).ret # NoError)
    /\ lastOp' = "Start"
    /\ UNCHANGED <<conn, term, fault, runHist, pending>>

\* ----------------------------------------------------------------- Wait
\* mutant of WaitClassify: the exit status of an *ssh.ExitError is not read
WaitClassifyNoStatus(rr, o) ==
    IF o.err # "nil"
    THEN [exitCode |-> -1, ret |-> Envelope(rr.script, rr.command, -1)]
    ELSE [exitCode |-> 0, ret |-> NoError]

\* the exit code and the error Wait makes of what session.Wait returned
WaitClassify(rr, o) ==
    IF o.err # "nil"
    THEN LET code == IF o.err = "exit" THEN o.status ELSE -1
         IN  [exitCode |-> code, ret |-> Envelope(rr.script, rr.command, code)]
    ELSE [exitCode |-> 0, ret |-> NoError]

\* mutant of WaitRunning: the flag is cleared on the success path only
WaitRunningKeptOnError(rr, o) == rr.running /\ o.err # "nil"

\* r.running = false, whatever session.Wait returned
WaitRunning(rr, o) == FALSE

\* a second session.Wait on a started session never returns
Wait ==
    /\ ~fault /\ r # Nil
    /\ ~(sess.started /\ sess.waited)
    /\ \E o \in SessionWaitOutcomes(sess) :
        /\ r' = [r EXCEPT !.running = WaitRunning(r, o),
                          !.exitCode = WaitClassify(r, o).exitCode]
        /\ ret' = WaitClassify(r, o).ret
        /\ calls' = <<[fn |-> "session.Wait", err |-> o.err # "nil",
                       kind |-> o.err, status |-> o.status]>>
        /\ spent' = (spent \/ WaitClassify(r, o).ret # NoError)
    /\ sess' = [sess EXCEPT !.waited = sess.started]
    /\ lastOp' = "Wait"
    /\ UNCHANGED <<conn, term, fault, runHist, pending>>

\* ------------------------------------------------------------------ Run
\* ssh.TerminalModes of Run
TerminalModes ==
    [ECHOCTL |-> 0, ECHO |-> 1, TTY_OP_ISPEED |-> 14400, TTY_OP_OSPEED |-> 14400]

\* what terminal.GetSize reports
TermSizes == {[w |-> 80, h |-> 24], [w |-> 132, h |-> 43]}

\* mutant of RunClassify: the exit status of an *ssh.ExitError is not read
RunClassifyNoStatus(rr, o) ==
    IF o.err # "nil"
    THEN [exitCode |-> -1, ret |-> Envelope(rr.script, rr.command, -1)]
    ELSE [exitCode |-> 0, ret |-> NoError]

\* the exit code and the error Run makes of what session.Run returned
RunClassify(rr, o) ==
    IF o.err # "nil"
    THEN IF o.err = "exit"
         THEN [exitCode |-> o.status, ret |-> Envelope(rr.script, rr.command, o.status)]
         ELSE [exitCode |-> -1, ret |-> Envelope(rr.script, rr.command, -1)]
    ELSE [exitCode |-> 0, ret |-> NoError]

\* the terminal part of Run that precedes the command: where it stops
\* ("raw", "size", "pty") or "run" when the command is reached
RunSetupStop(in) ==
    IF ~in.isTerm THEN "run"
    ELSE IF in.rawErr THEN "raw"
    ELSE IF in.sizeErr THEN "size"
    ELSE IF in.ptyErr THEN "pty"
    ELSE "run"

\* mutant of RunSetupLog: the terminal part is not guarded by IsTerminal
RunSetupLogAlwaysPty(in) ==
    <<[fn |-> "terminal.IsTerminal", err |-> FALSE, is |-> in.isTerm],
      Ev("terminal.MakeRaw", in.rawErr),
      [fn |-> "terminal.GetSize", err |-> in.sizeErr, size |-> in.size],
      [fn |-> "session.RequestPty", err |-> in.ptyErr,
       term |-> <<"x", "t", "e", "r", "m", "-", "2", "5", "6", "c", "o", "l", "o", "r">>,
       h |-> in.size.h, w |-> in.size.w, modes |-> TerminalModes]>>

\* the calls of the terminal part, in order
RunSetupLog(in) ==
    LET t == <<[fn |-> "terminal.IsTerminal", err |-> FALSE, is |-> in.isTerm]>>
        m == t \o <<Ev("terminal.MakeRaw", in.rawErr)>>
        g == m \o <<[fn |-> "terminal.GetSize", err |-> in.sizeErr, size |-> in.size]>>
        q == g \o <<[fn |-> "session.RequestPty", err |-> in.ptyErr,
                     term |-> <<"x", "t", "e", "r", "m", "-", "2", "5", "6",
                                "c", "o", "l", "o", "r">>,
                     h |-> in.size.h, w |-> in.size.w, modes |-> TerminalModes]>>
    IN  IF ~in.isTerm THEN t
        ELSE IF in.rawErr THEN m
        ELSE IF in.sizeErr THEN g
        ELSE q

\* mutant of RunDeferred: Restore is called after the command only, not
\* deferred
RunDeferredAfterCommandOnly(in) ==
    IF in.isTerm /\ ~in.rawErr /\ RunSetupStop(in) = "run"
    THEN <<Ev("terminal.Restore", FALSE)>> ELSE <<>>

\* the deferred terminal.Restore runs on every return that follows a
\* successful MakeRaw
RunDeferred(in) ==
    IF in.isTerm /\ ~in.rawErr THEN <<Ev("terminal.Restore", FALSE)>> ELSE <<>>

\* the terminal mode the calls of log leave behind: MakeRaw enters raw mode,
\* Restore puts back the mode orig that MakeRaw found
RECURSIVE TermAfter(_, _, _)
TermAfter(log, t, orig) ==
    IF Len(log) = 0 THEN t
    ELSE LET e == Head(log)
         IN  TermAfter(Tail(log),
                       IF e.fn = "terminal.MakeRaw" /\ ~e.err THEN "raw"
                       ELSE IF e.fn = "terminal.Restore" THEN orig
                       ELSE t,
                       orig)

\* what Run returns when the terminal part fails: the error as it came
RunSetupError(rr) == [exitCode |-> rr.exitCode, ret |-> BareError]

RunOutcome(rr, in) ==
    IF RunSetupStop(in) # "run"
    THEN [r |-> [rr EXCEPT !.exitCode = RunSetupError(rr).exitCode],
          ret |-> RunSetupError(rr).ret,
          calls |-> RunSetupLog(in) \o RunDeferred(in),
          ran |-> FALSE]
    ELSE [r |-> [rr EXCEPT !.exitCode = RunClassify(rr, in.o).exitCode],
          ret |-> RunClassify(rr, in.o).ret,
          calls |-> RunSetupLog(in)
                    \o <<[fn |-> "session.Run", err |-> in.o.err # "nil",
                          kind |-> in.o.err, status |-> in.o.status,
                          command |-> rr.command, launched |-> in.o.launched]>>
                    \o RunDeferred(in),
          ran |-> TRUE]

\* the environment's answers to one Run; answers are drawn only for the
\* calls Run gets to make
RunInputs(ss) ==
    {in \in [isTerm : BOOLEAN, rawErr : BOOLEAN, sizeErr : BOOLEAN, ptyErr : BOOLEAN,
             size : TermSizes, o : SessionRunOutcomes(ss)] :
        /\ ~in.isTerm => ~in.rawErr
        /\ (~in.isTerm \/ in.rawErr) => (~in.sizeErr /\ in.size = [w |-> 80, h |-> 24])
        /\ (~in.isTerm \/ in.rawErr \/ in.sizeErr) => ~in.ptyErr
        /\ ss.state # "open" /\ in.isTerm /\ ~in.rawErr /\ ~in.sizeErr => in.ptyErr
        /\ RunSetupStop(in) # "run" => in.o = Outcome("other", 0, FALSE)}

Run ==
    /\ ~fault /\ r # Nil
    /\ \E in \in RunInputs(sess) :
        LET out == RunOutcome(r, in)
        IN  /\ r' = out.r
            /\ ret' = out.ret
            /\ calls' = out.calls
            /\ sess' = [sess EXCEPT !.stdin = TRUE,
                                    !.started = @ \/ (out.ran /\ in.o.launched),
                                    !.waited = @ \/ (out.ran /\ in.o.launched)]
            /\ runHist' = IF out.ran
                          THEN [err |-> in.o.err, status |-> in.o.status,
                                exitCode |-> out.r.exitCode, ret |-> out.ret]
                          ELSE runHist
            /\ term' = TermAfter(out.calls, term, term)
            /\ spent' = (spent \/ out.ret # NoError)
    /\ lastOp' = "Run"
    /\ UNCHANGED <<conn, fault, pending>>

\* ---------------------------------------------------------------- Close
\* mutant of CloseLog: the teardown stops at the first call that fails
CloseLogStopsAtFailure(rr, in) ==
    LET s == IF rr.running
             THEN <<[fn |-> "session.Signal", err |-> in.sigErr, sig |-> "SIGTERM"]>>
             ELSE <<>>
        c == s \o (IF rr.session # "nil" THEN <<Ev("session.Close", in.chErr)>> ELSE <<>>)
        k == c \o (IF rr.client # "nil" THEN <<Ev("client.Close", in.connErr)>> ELSE <<>>)
    IN  IF rr.running /\ in.sigErr THEN s
        ELSE IF rr.session # "nil" /\ in.chErr THEN c
        ELSE k

\* the teardown calls of Close, in order: Signal when running, session.Close
\* when there is a session, client.Close when there is a client
CloseLog(rr, in) ==
    (IF rr.running THEN <<[fn |-> "session.Signal", err |-> in.sigErr, sig |-> "SIGTERM"]>>
     ELSE <<>>)
    \o (IF rr.session # "nil" THEN <<Ev("session.Close", in.chErr)>> ELSE <<>>)
    \o (IF rr.client # "nil" THEN <<Ev("client.Close", in.connErr)>> ELSE <<>>)

\* mutant of CloseReturn: the first failing teardown call is returned
CloseReturnFirstError(log) ==
    IF \E i \in DOMAIN log : log[i].err THEN BareError ELSE NoError

\* Close returns nil whatever the teardown calls returned
CloseReturn(log) == NoError

\* Close writes no field of the Runner
CloseRunner(rr) == rr

\* a closed channel refuses the signal and the second close, a closed
\* connection the second close
CloseInputs(rr, ss, cn) ==
    {in \in [sigErr : BOOLEAN, chErr : BOOLEAN, connErr : BOOLEAN] :
        /\ ~rr.running => ~in.sigErr
        /\ ss.state = "closed" => (in.chErr /\ (rr.running => in.sigErr))
        /\ cn = "closed" => in.connErr}

\* Close on the nil *Runner that a failed New returned dereferences it at
\* r.running
CloseNil ==
    /\ r = Nil /\ lastOp = "New"
    /\ fault' = TRUE
    /\ ret' = [kind |-> "panic"]
    /\ calls' = <<>>
    /\ UNCHANGED <<r, sess, conn, spent>>

CloseRunnerOp ==
    /\ r # Nil
    /\ \E in \in CloseInputs(r, sess, conn) :
        /\ calls' = CloseLog(r, in)
        /\ ret' = CloseReturn(CloseLog(r, in))
    /\ r' = CloseRunner(r)
    /\ sess' = [sess EXCEPT !.state = IF r.session # "nil" THEN "closed" ELSE @]
    /\ conn' = IF r.client # "nil" THEN "closed" ELSE conn
    /\ spent' = TRUE
    /\ UNCHANGED fault

Close ==
    /\ ~fault
    /\ lastOp' = "Close"
    /\ (CloseNil \/ CloseRunnerOp)
    /\ UNCHANGED <<term, runHist, pending>>

\* ExitCode()
ExitCode == r.exitCode

Next ==
    \/ New
    \/ SetStdoutWriter
    \/ SetStderrWriter
    \/ StdoutPipe
    \/ StderrPipe
    \/ Run
    \/ Start
    \/ Wait
    \/ Close

Spec == Init /\ [][Next]_vars

\* ------------------------------------ operations blocked in the channel
\* The caller runs Run or Wait in one goroutine and, on a deadline, calls
\* Close from another while the first is still inside session.Run or
\* session.Wait. Run and Wait are split at that call.

\* Run up to the point where session.Run has launched the command and
\* waits for it
RunBlocks ==
    /\ ~fault /\ r # Nil /\ pending = "none"
    /\ CanStart(sess)
    /\ \E in \in RunInputs(sess) :
        /\ RunSetupStop(in) = "run" /\ in.o = Outcome("nil", 0, TRUE)
        /\ calls' = RunSetupLog(in)
                    \o <<[fn |-> "session.Run", err |-> FALSE, kind |-> "blocked",
                          status |-> 0, command |-> r.command, launched |-> TRUE]>>
        /\ term' = TermAfter(RunSetupLog(in), term, term)
    /\ sess' = [sess EXCEPT !.stdin = TRUE, !.started = TRUE]
    /\ pending' = "Run"
    /\ UNCHANGED <<r, conn, lastOp, ret, fault, runHist, spent>>

\* session.Run comes back and Run finishes: classification and the deferred
\* terminal.Restore
RunUnblocks ==
    /\ ~fault /\ pending = "Run"
    /\ \E o \in {Outcome("nil", 0, TRUE), Outcome("other", 0, TRUE)}
                \cup {Outcome("exit", n, TRUE) : n \in ExitStatuses} :
        /\ r' = [r EXCEPT !.exitCode = RunClassify(r, o).exitCode]
        /\ ret' = RunClassify(r, o).ret
        /\ calls' = <<[fn |-> "session.Run", err |-> o.err # "nil", kind |-> o.err,
                       status |-> o.status, command |-> r.command, launched |-> FALSE]>>
                    \o (IF term = "raw" THEN <<Ev("terminal.Restore", FALSE)>> ELSE <<>>)
        /\ runHist' = [err |-> o.err, status |-> o.status,
                       exitCode |-> RunClassify(r, o).exitCode,
                       ret |-> RunClassify(r, o).ret]
        /\ spent' = (spent \/ RunClassify(r, o).ret # NoError)
    /\ term' = "cooked"
    /\ sess' = [sess EXCEPT !.waited = TRUE]
    /\ lastOp' = "Run"
    /\ pending' = "none"
    /\ UNCHANGED <<conn, fault>>

\* Wait inside session.Wait on a started command that has not ended
WaitBlocks ==
    /\ ~fault /\ r # Nil /\ pending = "none"
    /\ sess.state = "open" /\ sess.started /\ ~sess.waited
    /\ calls' = <<[fn |-> "session.Wait", err |-> FALSE, kind |-> "blocked", status |-> 0]>>
    /\ pending' = "Wait"
    /\ UNCHANGED <<r, sess, conn, term, lastOp, ret, fault, runHist, spent>>

\* session.Wait comes back and Wait finishes
WaitUnblocks ==
    /\ ~fault /\ pending = "Wait"
    /\ \E o \in SessionWaitOutcomes(sess) :
        /\ r' = [r EXCEPT !.running = WaitRunning(r, o),
                          !.exitCode = WaitClassify(r, o).exitCode]
        /\ ret' = WaitClassify(r, o).ret
        /\ calls' = <<[fn |-> "session.Wait", err |-> o.err # "nil",
                       kind |-> o.err, status |-> o.status]>>
        /\ spent' = (spent \/ WaitClassify(r, o).ret # NoError)
    /\ sess' = [sess EXCEPT !.waited = TRUE]
    /\ lastOp' = "Wait"
    /\ pending' = "none"
    /\ UNCHANGED <<conn, term, fault, runHist>>

\* Close from the other goroutine while Run or Wait is blocked
CloseWhileBlocked == pending # "none" /\ Close

NextBlocked ==
    \/ pending = "none" /\ New
    \/ pending = "none" /\ SetStdoutWriter
    \/ pending = "none" /\ SetStderrWriter
    \/ pending = "none" /\ StdoutPipe
    \/ pending = "none" /\ StderrPipe
    \/ pending = "none" /\ Run
    \/ pending = "none" /\ Start
    \/ pending = "none" /\ Wait
    \/ pending = "none" /\ Close
    \/ RunBlocks
    \/ RunUnblocks
    \/ WaitBlocks
    \/ WaitUnblocks
    \/ CloseWhileBlocked

SpecBlocked == Init /\ [][NextBlocked]_vars

\* ---------------------------------------------------------- properties
\* the logged call to fn of the last operation
EvOf(fn) == calls[CHOOSE i \in DOMAIN calls : calls[i].fn = fn]

\* C1: after Close returns on a Runner, its running flag is false, in
\* whatever state Close was called (here: also after Start with no Wait).
C1_CloseClearsRunning ==
    (lastOp = "Close" /\ r # Nil) => ~r.running

\* C2: Close on a Runner that New returned gives no error, whatever
\* preceded it and whichever of its teardown calls failed.
C2_CloseReturnsNoError ==
    (lastOp = "Close" /\ r # Nil) => ret = NoError

\* C2 witness: Close on a running Runner whose signal, channel close and
\* connection close all failed.
C2_Witness ==
    /\ lastOp = "Close" /\ r # Nil /\ r.running
    /\ Failed("session.Signal") /\ Failed("session.Close") /\ Failed("client.Close")
    /\ ret = NoError

\* C3: Close on what a failed New returned does not fault and raises no
\* error.
C3_CloseAfterFailedNewIsSafe ==
    (lastOp = "Close" /\ r = Nil) => (~fault /\ ret = NoError)

\* C4: when session.Run reports success Run returns no error and ExitCode()
\* is 0; when it reports a process exit with status N > 0 Run returns an
\* Error whose exitCode is N and ExitCode() is N.
C4_RunRecordsExitStatus ==
    (lastOp = "Run" /\ Called("session.Run")) =>
        LET e == EvOf("session.Run")
        IN  /\ e.kind = "nil" => (ret = NoError /\ ExitCode = 0)
            /\ (e.kind = "exit" /\ e.status > 0) =>
                  (ret.kind = "Error" /\ ret.exitCode = e.status /\ ExitCode = e.status)

\* C4 witness: a Run whose remote process exited with a status above 1.
C4_Witness ==
    /\ lastOp = "Run" /\ Called("session.Run")
    /\ EvOf("session.Run").kind = "exit" /\ EvOf("session.Run").status > 1
    /\ ExitCode = EvOf("session.Run").status

\* C5: a Run that fails for a reason other than a remote exit status (raw
\* mode, terminal size, pseudo-terminal request, transport) sets exitCode to
\* -1 and returns an Error carrying the script and exit code -1.
C5_RunFailureIsEnvelope ==
    (/\ lastOp = "Run"
     /\ \/ Failed("terminal.MakeRaw") \/ Failed("terminal.GetSize")
        \/ Failed("session.RequestPty")
        \/ (Called("session.Run") /\ EvOf("session.Run").kind = "other"))
    => (ExitCode = -1 /\ ret = Envelope(TheScript, r.command, -1))

\* C6: a successful Start leaves running true, running stays true through
\* every operation on the Runner until Wait, and it is false when Wait has
\* returned, whatever Wait returned.
C6_RunningFromStartToWait ==
    [][/\ (lastOp' = "Start" /\ ret'.kind = "nil") => r'.running
       /\ (r # Nil /\ r.running /\ lastOp' \notin {"Wait", "New"}) => r'.running
       /\ lastOp' = "Wait" => ~r'.running]_vars

\* C6 witness: Wait on a started command returned a transport error and
\* running is false.
C6_Witness ==
    /\ lastOp = "Wait" /\ sess.started /\ sess.waited
    /\ EvOf("session.Wait").kind = "other"
    /\ ret.kind = "Error" /\ ~r.running

\* the exit code the outcome kinds stand for
OutcomeCode(kind, status) ==
    IF kind = "nil" THEN 0 ELSE IF kind = "exit" THEN status ELSE -1

\* C7: for the channel outcome that the last Run got, a Wait that gets the
\* same outcome leaves the same exitCode (0, N, -1) and agrees on whether an
\* Error is returned and on its exitCode.
C7_WaitClassifiesLikeRun ==
    (/\ lastOp = "Wait"
     /\ runHist.err = EvOf("session.Wait").kind
     /\ runHist.status = EvOf("session.Wait").status)
    => /\ r.exitCode = runHist.exitCode
       /\ r.exitCode = OutcomeCode(runHist.err, runHist.status)
       /\ ret.kind = runHist.ret.kind
       /\ ret.kind = "Error" => ret.exitCode = runHist.ret.exitCode

\* C7 witness: Run saw a process exit with a status above 1 and a later
\* Wait saw the same.
C7_Witness ==
    /\ lastOp = "Wait"
    /\ runHist.err = "exit" /\ runHist.status > 1
    /\ EvOf("session.Wait").kind = "exit"
    /\ EvOf("session.Wait").status = runHist.status

\* C8: when the script carries a parse error or rendering fails, New returns
\* an Error with exitCode -1 and no command text, returns no Runner, and
\* neither locates or loads known_hosts, nor dials, nor opens a channel.
C8_CompositionFailureBeforeNetwork ==
    (lastOp = "New" /\ (Failed("s.Error") \/ Failed("s.NewReader"))) =>
        /\ ret = Envelope(TheScript, <<>>, -1)
        /\ r = Nil
        /\ ~Called("homedir.Expand") /\ ~Called("knownhosts.New")
        /\ ~Called("ssh.Dial") /\ ~Called("client.NewSession")
        /\ conn = "none"

\* C8 witness: New returned after s.NewReader failed.
C8_Witness ==
    lastOp = "New" /\ Failed("s.NewReader") /\ r = Nil /\ ret.kind = "Error"

\* C9: every failure during New is returned as an Error; a failure of
\* reading the script body never lets New go on to dial.
C9_NewSurfacesEveryFailure ==
    (lastOp = "New" /\ \E i \in DOMAIN calls : calls[i].err) =>
        /\ ret.kind = "Error"
        /\ Failed("ioutil.ReadAll") => ~Called("ssh.Dial")

\* C10: when the descriptor is not insecure and known_hosts cannot be
\* located or loaded, New returns an Error with exitCode -1 and does not
\* dial; a dial accepts any host key exactly when the descriptor is
\* insecure, and then known_hosts is neither located nor loaded; any other
\* dial follows a successful load of known_hosts.
C10_HostVerificationFailsClosed ==
    lastOp = "New" =>
        /\ (Failed("homedir.Expand") \/ Failed("knownhosts.New")) =>
              /\ ~EvOf("toConnection").c.Insecure
              /\ ret = Envelope(TheScript, <<>>, -1)
              /\ r = Nil
              /\ ~Called("ssh.Dial")
        /\ Called("ssh.Dial") =>
              LET c == EvOf("toConnection").c
                  d == EvOf("ssh.Dial")
              IN  /\ (d.policy = "InsecureIgnoreHostKey") <=> c.Insecure
                  /\ c.Insecure => (~Called("homedir.Expand") /\ ~Called("knownhosts.New"))
                  /\ ~c.Insecure =>
                        /\ d.policy = "knownhosts"
                        /\ Called("knownhosts.New") /\ ~Failed("knownhosts.New")

\* C10 witness: a map descriptor whose Insecure value does not parse, and a
\* known_hosts file that cannot be loaded.
C10_Witness ==
    /\ lastOp = "New" /\ Failed("knownhosts.New")
    /\ EvOf("toConnection").connection.kind = "map"
    /\ "Insecure" \in DOMAIN EvOf("toConnection").connection.v
    /\ EvOf("toConnection").connection.v["Insecure"] = <<"y", "e", "s">>
    /\ r = Nil

\* C11: when Run has put the terminal into raw mode, the terminal is back
\* in its original mode when Run returns, on every exit path, and
\* terminal.Restore is the last call Run makes.
C11_TerminalRestoredOnEveryPath ==
    (lastOp = "Run" /\ Called("terminal.MakeRaw") /\ ~Failed("terminal.MakeRaw")) =>
        /\ term = "cooked"
        /\ calls[Len(calls)].fn = "terminal.Restore"

\* C11 witness: a Run that entered raw mode and returned early because the
\* terminal size query failed.
C11_Witness ==
    /\ lastOp = "Run" /\ Called("terminal.MakeRaw") /\ ~Failed("terminal.MakeRaw")
    /\ Failed("terminal.GetSize") /\ ret.kind = "bare"
    /\ Called("terminal.Restore") /\ term = "cooked"

\* C12: when standard input is not a terminal, Run requests no
\* pseudo-terminal, neither enters raw mode nor restores a mode, leaves the
\* terminal mode as it was, and runs the composed command on the channel.
C12_NoTerminalNoPty ==
    (lastOp = "Run" /\ ~EvOf("terminal.IsTerminal").is) =>
        /\ ~Called("session.RequestPty")
        /\ ~Called("terminal.MakeRaw") /\ ~Called("terminal.GetSize")
        /\ ~Called("terminal.Restore")
        /\ term = "cooked"
        /\ Called("session.Run") /\ EvOf("session.Run").command = r.command

\* C12 witness: a Run without a terminal whose command ran to success.
C12_Witness ==
    /\ lastOp = "Run" /\ ~EvOf("terminal.IsTerminal").is
    /\ Called("session.Run") /\ EvOf("session.Run").kind = "nil"
    /\ EvOf("session.Run").command = ScriptCommand \o ScriptBody

\* the spellings strconv.ParseBool takes for a boolean
BoolSpellings(b) ==
    IF b THEN {<<"t", "r", "u", "e">>, <<"T", "R", "U", "E">>, <<"T", "r", "u", "e">>,
               <<"t">>, <<"T">>, <<"1">>}
    ELSE {<<"f", "a", "l", "s", "e">>, <<"F", "A", "L", "S", "E">>,
          <<"F", "a", "l", "s", "e">>, <<"f">>, <<"F">>, <<"0">>}

\* the map form of the values of a struct descriptor: the strings as they
\* are, the port in decimal, the boolean in spelling s, and an unknown key
\* when extra
MapOfStruct(v, s, extra) ==
    [kind |-> "map",
     v |-> ("Type" :> v.Type) @@ ("Host" :> v.Host) @@ ("Port" :> FormatDec(v.Port))
           @@ ("User" :> v.User) @@ ("Password" :> v.Password) @@ ("Insecure" :> s)
           @@ (IF extra THEN ("Extra" :> <<"x">>) @@ ("port" :> <<"1">>) ELSE <<>>)]

\* C13: the canonical Connection that New got for a struct descriptor is
\* the one toConnection gives for every map form of the same values, with
\* or without unknown keys.
C13_StructAndMapNormaliseAlike ==
    (lastOp = "New" /\ Called("toConnection")
     /\ EvOf("toConnection").connection.kind = "struct") =>
        LET e == EvOf("toConnection")
        IN  \A s \in BoolSpellings(e.connection.v.Insecure), extra \in BOOLEAN :
                toConnection(MapOfStruct(e.connection.v, s, extra)) = e.c

\* C13 witness: New normalised a struct descriptor with the largest port
\* and Insecure set.
C13_Witness ==
    /\ lastOp = "New" /\ Called("toConnection")
    /\ EvOf("toConnection").connection.kind = "struct"
    /\ EvOf("toConnection").connection.v.Port = 65535
    /\ EvOf("toConnection").connection.v.Insecure
    /\ EvOf("toConnection").c.Port = 65535 /\ EvOf("toConnection").c.Insecure

\* an unsigned base-10 integer that fits in 16 bits
IsPortLiteral(s) ==
    /\ Len(s) > 0
    /\ \A i \in DOMAIN s : IsIn(Digits, s[i])
    /\ DigitsValue(s) < Pow2(PortBits)

TrueLiterals == {<<"1">>, <<"t">>, <<"t", "r", "u", "e">>}

FalseLiterals == {<<"0">>, <<"f">>, <<"f", "a", "l", "s", "e">>}

\* a boolean literal, case-insensitive
IsBoolLiteral(s) == ToLower(s) \in TrueLiterals \cup FalseLiterals

\* C14: for a map descriptor toConnection returns a Connection whose Port
\* is 0 when the Port value is no 16-bit unsigned decimal and the parsed
\* value otherwise, whose Insecure is false when the Insecure value is no
\* boolean literal and the parsed value otherwise, and whose other fields
\* are the values of the map.
C14_UnparsableMapValuesDefault ==
    (lastOp = "New" /\ Called("toConnection")
     /\ EvOf("toConnection").connection.kind = "map") =>
        LET m == EvOf("toConnection").connection.v
            c == EvOf("toConnection").c
        IN  /\ "Port" \in DOMAIN m =>
                  c.Port = IF IsPortLiteral(m["Port"]) THEN DigitsValue(m["Port"]) ELSE 0
            /\ "Insecure" \in DOMAIN m =>
                  c.Insecure = (IsBoolLiteral(m["Insecure"])
                                /\ ToLower(m["Insecure"]) \in TrueLiterals)
            /\ \A k \in {"Type", "Host", "User", "Password"} \cap DOMAIN m :
                  c[k] = m[k]

\* C14 witness: a map whose Port and Insecure values both fail to parse,
\* normalised to port 0, not insecure, with its host kept.
C14_Witness ==
    /\ lastOp = "New" /\ Called("toConnection")
    /\ EvOf("toConnection").connection.kind = "map"
    /\ "Insecure" \in DOMAIN EvOf("toConnection").connection.v
    /\ EvOf("toConnection").connection.v["Port"] = <<"-", "1">>
    /\ EvOf("toConnection").connection.v["Insecure"] = <<>>
    /\ EvOf("toConnection").c.Port = 0 /\ ~EvOf("toConnection").c.Insecure
    /\ EvOf("toConnection").c.Host = <<"h">>

\* the names of the calls of a log, in order
Names(log) == [i \in DOMAIN log |-> log[i].fn]

\* C15: Close on a Runner sends the termination signal first if and only
\* if the Runner was running, then closes the channel, then closes the
\* connection, whichever of these calls fail.
C15_CloseTeardownOrder ==
    [][(lastOp' = "Close" /\ r # Nil) =>
          /\ Names(calls') = (IF r.running THEN <<"session.Signal">> ELSE <<>>)
                             \o <<"session.Close", "client.Close">>
          /\ r.running => calls'[1].sig = "SIGTERM"]_vars

\* C15 witness: a Close whose signal and channel close failed and whose
\* connection close was still made.
C15_Witness ==
    /\ lastOp = "Close" /\ r # Nil /\ Len(calls) = 3
    /\ calls[1].fn = "session.Signal" /\ calls[1].err
    /\ calls[2].fn = "session.Close" /\ calls[2].err
    /\ calls[3].fn = "client.Close" /\ ~calls[3].err

\* C16: a Close made while Run or Wait is blocked in the channel sends the
\* termination signal and closes the channel and the connection.
C16_CloseWhileBlockedSignals ==
    (pending # "none" /\ lastOp = "Close") =>
        /\ Called("session.Signal")
        /\ Called("session.Close") /\ Called("client.Close")

\* an operation's log shows the command being launched on the channel
Launches(log) ==
    \E i \in DOMAIN log : log[i].fn \in {"session.Run", "session.Start"} /\ log[i].launched

\* C17: once Run, Start or Wait has returned an error or Close has been
\* called on a Runner, no later Run or Start on it launches the command on
\* the channel or sets running back to true.
C17_SpentRunnerNotReused ==
    [][(spent /\ lastOp' \in {"Run", "Start"}) =>
          /\ ~Launches(calls')
          /\ r'.running => r.running]_vars

\* C18: every pseudo-terminal request of Run asks for xterm-256color, with
\* the local terminal's height and width each in its own position, and a
\* mode map that disables echo and fixes both baud rates.
C18_PtyRequestParameters ==
    (lastOp = "Run" /\ Called("session.RequestPty")) =>
        LET q == EvOf("session.RequestPty")
            g == EvOf("terminal.GetSize")
        IN  /\ q.term = <<"x", "t", "e", "r", "m", "-", "2", "5", "6",
                          "c", "o", "l", "o", "r">>
            /\ q.h = g.size.h /\ q.w = g.size.w
            /\ q.modes.ECHO = 0
            /\ q.modes.TTY_OP_ISPEED = 14400 /\ q.modes.TTY_OP_OSPEED = 14400

\* C19: when New returns, a connection it dialled is either owned by the
\* returned Runner or closed.
C19_NoOrphanedConnection ==
    (lastOp = "New" /\ conn = "open") => (r # Nil /\ r.client = "client")

\* C20: right after Run or Wait returns, ExitCode() is 0 exactly when the
\* call returned no error.
C20_ExitCodeAgreesWithOutcome ==
    (lastOp \in {"Run", "Wait"} /\ r # Nil) => (ExitCode = 0 <=> ret = NoError)

====
